---- MODULE Spec2Model ----
(***************************************************************************)
(* Model of api/index.py: the startup load of the telemetry table and the  *)
(* two request handlers, POST /api (get_metrics) and GET / (read_root).    *)
(*                                                                         *)
(* Numbers are fixed-point: a real x is the integer x * 10000 ("ticks"),   *)
(* so one tick is 0.0001 and three decimals are a multiple of 10 ticks.    *)
(* A value that is not yet rounded is an exact fraction [num, den] of      *)
(* ticks.  Binary floating-point representation error is not modelled.     *)
(***************************************************************************)
EXTENDS Integers, Sequences, FiniteSets, TLC

VARIABLES source, pc, TELEMETRY_DF, request, entered, response

vars == <<source, pc, TELEMETRY_DF, request, entered, response>>

(* ------------------------------ bounds --------------------------------- *)

\* Longest source file (rows) and longest `regions` list of a request.
MaxRows == 3
MaxRegions == 2

(* ---------------------------- input values ------------------------------ *)

\* whole.frac4 as ticks, e.g. Ms(99, 9000) is 99.9 and Ms(100, 4) is 100.0004
Ms(whole, frac4) == whole * 10000 + frac4

\* A JSON field as read from the file: a number, a string, or null.
Num(v) == [t |-> "num", v |-> v, s |-> <<>>]
Str(s) == [t |-> "str", v |-> 0, s |-> s]
Null == [t |-> "null", v |-> 0, s |-> <<>>]

SourceRow(region, latency, uptime) ==
    [region |-> region, latency |-> latency, uptime |-> uptime]

\* The lines a source file is made of.
SourceRows ==
    { SourceRow("amer", Num(Ms(100, 0)), Num(Ms(99, 9000))),
      SourceRow("amer", Num(Ms(300, 0)), Num(Ms(99, 5000))),
      SourceRow("emea", Num(Ms(50, 0)), Num(Ms(100, 0))),
      SourceRow("emea", Num(Ms(100, 4)), Str(<<"9", "9">>)),
      SourceRow("amer", Str(<<"n", "/", "a">>), Num(Ms(99, 5000))),
      SourceRow("emea", Num(Ms(50, 0)), Null) }

SeqsUpTo(S, n) == UNION { [1..k -> S] : k \in 0..n }

\* What the file can be at startup: absent, not line-delimited JSON, lacking
\* one of the two numeric columns, or a sequence of rows.
Sources ==
    { [kind |-> k, rows |-> <<>>] : k \in {"missing", "unparseable", "nocolumn"} }
    \cup { [kind |-> "rows", rows |-> r] : r \in SeqsUpTo(SourceRows, MaxRows) }

Labels == {"amer", "emea", "apac"}
Thresholds == {0 - Ms(5, 0), 0, Ms(50, 0), Ms(150, 0)}

\* The JSON bodies posted to /api (well-shaped; threshold_ms any number).
Bodies ==
    { [regions |-> rs, threshold_ms |-> th] :
        rs \in SeqsUpTo(Labels, MaxRegions), th \in Thresholds }

(* ------------------------------ RequestBody ----------------------------- *)

ValidateGe(body) == body.threshold_ms >= 0

\* threshold_ms: float = Field(..., gt=0)
Validate(body) == body.threshold_ms > 0

(* ------------------------------ startup load ---------------------------- *)

NaN == [nan |-> TRUE, v |-> 0]
Number(v) == [nan |-> FALSE, v |-> v]

DigitVal ==
    ("0" :> 0) @@ ("1" :> 1) @@ ("2" :> 2) @@ ("3" :> 3) @@ ("4" :> 4) @@
    ("5" :> 5) @@ ("6" :> 6) @@ ("7" :> 7) @@ ("8" :> 8) @@ ("9" :> 9)

RECURSIVE ParseDigits(_, _)
\* The integer a string of decimal digits denotes, left to right.
ParseDigits(s, acc) ==
    IF s = <<>> THEN acc
    ELSE ParseDigits(Tail(s), acc * 10 + DigitVal[Head(s)])

\* pd.to_numeric(..., errors='coerce') on one field: a number stays, a string
\* of decimal digits is parsed, anything else (other strings, null) is NaN.
ToNumeric(x) ==
    CASE x.t = "num" -> Number(x.v)
      [] x.t = "str" ->
            IF x.s # <<>> /\ \A i \in DOMAIN x.s : x.s[i] \in DOMAIN DigitVal
            THEN Number(Ms(ParseDigits(x.s, 0), 0))
            ELSE NaN
      [] OTHER -> NaN

Coerce(rows) ==
    [i \in DOMAIN rows |->
        [region |-> rows[i].region,
         latency |-> ToNumeric(rows[i].latency),
         uptime |-> ToNumeric(rows[i].uptime)]]

NotNa(row) == ~row.latency.nan /\ ~row.uptime.nan

DropNaLatencyOnly(df) == SelectSeq(df, LAMBDA row : ~row.latency.nan)

\* TELEMETRY_DF.dropna(subset=['latency', 'uptime'], inplace=True)
DropNa(df) == SelectSeq(df, NotNa)

\* The try/except around the load: any failure leaves pd.DataFrame().
LoadTable(src) ==
    IF src.kind = "rows" THEN DropNa(Coerce(src.rows)) ELSE <<>>

(* ------------------------------ arithmetic ------------------------------ *)

RECURSIVE Sum(_)
Sum(vals) == IF vals = <<>> THEN 0 ELSE Head(vals) + Sum(Tail(vals))

\* num/den rounded to the nearest integer, a tie going to the even one
\* (numpy's rint, which numpy.float64.__round__ applies to the scaled value).
RoundHalfEven(num, den) ==
    LET q == num \div den
        r == num % den
    IN  IF 2 * r < den THEN q
        ELSE IF 2 * r > den THEN q + 1
        ELSE IF q % 2 = 0 THEN q ELSE q + 1

Round3Up(x) == 10 * ((x.num + 10 * x.den - 1) \div (10 * x.den))

\* round(x, 3): the fraction x of ticks as a multiple of 10 ticks (0.001).
Round3(x) == 10 * RoundHalfEven(x.num, 10 * x.den)

\* Series.mean(): the exact mean of a non-empty column.
Mean(vals) == [num |-> Sum(vals), den |-> Len(vals)]

RECURSIVE Insert(_, _)
Insert(x, s) ==
    IF s = <<>> THEN <<x>>
    ELSE IF x <= Head(s) THEN <<x>> \o s
    ELSE <<Head(s)>> \o Insert(x, Tail(s))

RECURSIVE Sort(_)
\* The ascending order np.percentile puts the values in before indexing.
Sort(s) == IF s = <<>> THEN <<>> ELSE Insert(Head(s), Sort(Tail(s)))

\* numpy's default ("linear") method on the ordered array `arr` of n values:
\* virtual index q/100 * (n-1), its floor `previous`, `next` one further
\* (clipped to the last index), gamma the fractional part, and the result
\* arr[previous] + (arr[next] - arr[previous]) * gamma.
Lerp(arr, q) ==
    LET n == Len(arr)
        virtual == q * (n - 1)
        previous == virtual \div 100
        next == IF previous + 1 > n - 1 THEN n - 1 ELSE previous + 1
        gamma == virtual % 100
    IN  [num |-> 100 * arr[previous + 1]
                 + (arr[next + 1] - arr[previous + 1]) * gamma,
         den |-> 100]

PercentileUnsorted(a, q) == Lerp(a, q)

\* np.percentile(a, q)
Percentile(a, q) == Lerp(Sort(a), q)

(* ------------------------------ get_metrics ----------------------------- *)

EmptyMap == [k \in {} |-> 0]

NoResponse == [kind |-> "none", message |-> "", metrics |-> EmptyMap]
ValidationError == [kind |-> "validation", message |-> "", metrics |-> EmptyMap]
ErrorResponse ==
    [kind |-> "error", message |-> "Telemetry data could not be loaded.",
     metrics |-> EmptyMap]
RootResponse ==
    [kind |-> "root",
     message |-> "Telemetry Metrics API is running. POST to /api.",
     metrics |-> EmptyMap]
MetricsResponse(metrics_result) ==
    [kind |-> "metrics", message |-> "", metrics |-> metrics_result]

\* DataFrame.empty
Empty(df) == Len(df) = 0

RegionDfAll(df, region) == df

\* TELEMETRY_DF[TELEMETRY_DF['region'] == region]
RegionDf(df, region) == SelectSeq(df, LAMBDA row : row.region = region)

Latency(df) == [i \in DOMAIN df |-> df[i].latency.v]
Uptime(df) == [i \in DOMAIN df |-> df[i].uptime.v]

BreachesAtLeast(region_df, threshold_ms) ==
    Len(SelectSeq(region_df, LAMBDA row : row.latency.v >= threshold_ms))

BreachesBelow(region_df, threshold_ms) ==
    Len(SelectSeq(region_df, LAMBDA row : row.latency.v < threshold_ms))

\* (region_df['latency'] > data.threshold_ms).sum()
Breaches(region_df, threshold_ms) ==
    Len(SelectSeq(region_df, LAMBDA row : row.latency.v > threshold_ms))

\* The record stored for one region with data.
RegionStats(region_df, threshold_ms) ==
    [avg_latency |-> Round3(Mean(Latency(region_df))),
     p95_latency |-> Round3(Percentile(Latency(region_df), 95)),
     avg_uptime |-> Round3(Mean(Uptime(region_df))),
     breaches |-> Breaches(region_df, threshold_ms)]

RECURSIVE Loop(_, _, _, _)
\* for region in data.regions: ... , from metrics_result so far.
Loop(df, regions, threshold_ms, metrics_result) ==
    IF regions = <<>> THEN metrics_result
    ELSE LET region == Head(regions)
             region_df == RegionDf(df, region)
         IN  IF Empty(region_df)
             THEN Loop(df, Tail(regions), threshold_ms, metrics_result)
             ELSE Loop(df, Tail(regions), threshold_ms,
                       (region :> RegionStats(region_df, threshold_ms))
                           @@ metrics_result)

get_metrics_unchecked(df, data) ==
    MetricsResponse(Loop(df, data.regions, data.threshold_ms, EmptyMap))

get_metrics_no_regions(df, data) ==
    IF Empty(df) \/ data.regions = <<>> THEN ErrorResponse
    ELSE MetricsResponse(Loop(df, data.regions, data.threshold_ms, EmptyMap))

\* The handler's return value for a validated body.
get_metrics(df, data) ==
    IF Empty(df) THEN ErrorResponse
    ELSE MetricsResponse(Loop(df, data.regions, data.threshold_ms, EmptyMap))

(* ------------------------------ the server ------------------------------ *)

NoRequest == [path |-> "", regions |-> <<>>, threshold_ms |-> 0]

\* pc: "startup" while the module is imported, "serving" while the server
\* waits for a request, "responded" once a handler has returned.  `entered`
\* tells whether the body of get_metrics ran for the current request.
Init ==
    /\ source \in Sources
    /\ pc = "startup"
    /\ TELEMETRY_DF = <<>>
    /\ request = NoRequest
    /\ entered = FALSE
    /\ response = NoResponse

\* Module import: the load runs once, before any request is served.
Startup ==
    /\ pc = "startup"
    /\ TELEMETRY_DF' = LoadTable(source)
    /\ pc' = "serving"
    /\ UNCHANGED <<source, request, entered, response>>

PostApiKeepsFilter ==
    /\ pc = "serving"
    /\ \E body \in Bodies :
        /\ request' = [path |-> "/api", regions |-> body.regions,
                       threshold_ms |-> body.threshold_ms]
        /\ entered' = Validate(body)
        /\ response' = IF Validate(body) THEN get_metrics(TELEMETRY_DF, body)
                       ELSE ValidationError
        /\ TELEMETRY_DF' =
              IF Validate(body) /\ body.regions # <<>>
              THEN RegionDf(TELEMETRY_DF, Head(body.regions))
              ELSE TELEMETRY_DF
    /\ pc' = "responded"
    /\ UNCHANGED source

\* POST /api: the body is validated against RequestBody; get_metrics is
\* entered only with a valid body, otherwise the request is rejected.
PostApi ==
    /\ pc = "serving"
    /\ \E body \in Bodies :
        /\ request' = [path |-> "/api", regions |-> body.regions,
                       threshold_ms |-> body.threshold_ms]
        /\ entered' = Validate(body)
        /\ response' = IF Validate(body) THEN get_metrics(TELEMETRY_DF, body)
                       ELSE ValidationError
    /\ pc' = "responded"
    /\ UNCHANGED <<source, TELEMETRY_DF>>

\* GET /
read_root ==
    /\ pc = "serving"
    /\ request' = [path |-> "/", regions |-> <<>>, threshold_ms |-> 0]
    /\ entered' = FALSE
    /\ response' = RootResponse
    /\ pc' = "responded"
    /\ UNCHANGED <<source, TELEMETRY_DF>>

\* The response has been sent: the handler's locals (data, metrics_result)
\* are gone and the server waits for the next request.  Only the module
\* global TELEMETRY_DF outlives a request.
Return ==
    /\ pc = "responded"
    /\ request' = NoRequest
    /\ entered' = FALSE
    /\ response' = NoResponse
    /\ pc' = "serving"
    /\ UNCHANGED <<source, TELEMETRY_DF>>

Next == Startup \/ PostApi \/ read_root \/ Return

Spec == Init /\ [][Next]_vars

(* ------------------------------ properties ------------------------------ *)

Range(seq) == { seq[i] : i \in DOMAIN seq }

\* The table rows (indexes) of region r, and their latencies.
RowsOf(r) == { i \in DOMAIN TELEMETRY_DF : TELEMETRY_DF[i].region = r }
LatenciesOf(r) == { TELEMETRY_DF[i].latency.v : i \in RowsOf(r) }

MinOf(S) == CHOOSE x \in S : \A y \in S : x <= y
MaxOf(S) == CHOOSE x \in S : \A y \in S : y <= x

\* A POST /api request has been answered; with a body that passes validation.
Answered == pc = "responded" /\ request.path = "/api"
AnsweredValid == Answered /\ request.threshold_ms > 0
Reported == Answered /\ response.kind = "metrics"

LoadFailed == source.kind # "rows"

\* C1: with a non-empty table, a valid request is answered with a map whose
\* keys are exactly the requested labels that have a row in the table; a
\* label without rows gets no entry and the answer is still a map.
C1_KeySet ==
    (AnsweredValid /\ TELEMETRY_DF # <<>>) =>
        /\ response.kind = "metrics"
        /\ DOMAIN response.metrics =
              { r \in Range(request.regions) : RowsOf(r) # {} }

C1_Witness ==
    /\ Reported
    /\ DOMAIN response.metrics # {}
    /\ \E r \in Range(request.regions) :
          RowsOf(r) = {} /\ r \notin DOMAIN response.metrics

\* C2: for every reported region, breaches is the number of its rows whose
\* latency is strictly greater than threshold_ms (a row equal to the
\* threshold is not counted), a natural number.
C2_Breaches ==
    Reported =>
        \A r \in DOMAIN response.metrics :
            /\ response.metrics[r].breaches \in Nat
            /\ response.metrics[r].breaches =
                  Cardinality({ i \in RowsOf(r) :
                      TELEMETRY_DF[i].latency.v > request.threshold_ms })

C2_Witness ==
    /\ Reported
    /\ \E r \in DOMAIN response.metrics :
          /\ \E i \in RowsOf(r) :
                TELEMETRY_DF[i].latency.v = request.threshold_ms
          /\ response.metrics[r].breaches = 0

\* C3: a request whose threshold_ms is not strictly positive is rejected
\* before get_metrics is entered and never answered with a statistics map.
C3_Rejected ==
    /\ (Answered /\ request.threshold_ms <= 0) =>
          ~entered /\ response.kind = "validation"
    /\ entered => request.threshold_ms > 0

C3_Witness ==
    Answered /\ request.threshold_ms = 0 /\ response.kind = "validation"

ValidThresholds == { t \in Thresholds : t > 0 }

\* C6: for the table and a reported region, breaches does not increase with
\* the threshold: a valid threshold at least as large gives at most the
\* reported count, one at most as large gives at least the reported count.
C6_Monotone ==
    Reported =>
        \A r \in DOMAIN response.metrics : \A t \in ValidThresholds :
            LET other ==
                    get_metrics(TELEMETRY_DF,
                                [regions |-> <<r>>, threshold_ms |-> t])
                        .metrics[r].breaches
                mine == response.metrics[r].breaches
            IN  /\ request.threshold_ms <= t => other <= mine
                /\ t <= request.threshold_ms => mine <= other

C6_Witness ==
    /\ Reported
    /\ \E r \in DOMAIN response.metrics : \E t \in ValidThresholds :
          /\ request.threshold_ms < t
          /\ get_metrics(TELEMETRY_DF,
                         [regions |-> <<r>>, threshold_ms |-> t])
                 .metrics[r].breaches < response.metrics[r].breaches

\* C7 (as amended): the reported avg_latency and p95_latency of a region lie
\* within half a unit of the third decimal (0.0005, 5 ticks) of the range
\* [min, max] of the region's latencies, and within [min, max] itself when
\* every latency of the region has at most three decimals.
C7_WithinRounded ==
    Reported =>
        \A r \in DOMAIN response.metrics :
            LET lo == MinOf(LatenciesOf(r))
                hi == MaxOf(LatenciesOf(r))
                slack == IF \A v \in LatenciesOf(r) : v % 10 = 0
                         THEN 0 ELSE 5
                avg == response.metrics[r].avg_latency
                p95 == response.metrics[r].p95_latency
            IN  /\ lo - slack <= avg /\ avg <= hi + slack
                /\ lo - slack <= p95 /\ p95 <= hi + slack

C7_Witness ==
    /\ Reported
    /\ \E r \in DOMAIN response.metrics :
          /\ response.metrics[r].avg_latency < MinOf(LatenciesOf(r))
          /\ Cardinality(RowsOf(r)) > 1

\* C7 (as stated): the reported avg_latency and p95_latency of a region lie
\* within [min, max] of the region's latencies.
C7_WithinRange ==
    Reported =>
        \A r \in DOMAIN response.metrics :
            LET lo == MinOf(LatenciesOf(r))
                hi == MaxOf(LatenciesOf(r))
                avg == response.metrics[r].avg_latency
                p95 == response.metrics[r].p95_latency
            IN  /\ lo <= avg /\ avg <= hi
                /\ lo <= p95 /\ p95 <= hi

\* The k-th (zero-based) latency of region r in ascending order, found by
\* counting: at most k rows are below it and more than k are not above it.
Kth(r, k) ==
    CHOOSE v \in LatenciesOf(r) :
        /\ Cardinality({ i \in RowsOf(r) : TELEMETRY_DF[i].latency.v < v }) <= k
        /\ k < Cardinality({ i \in RowsOf(r) : TELEMETRY_DF[i].latency.v <= v })

\* 20 times the linear interpolation at rank 0.95 * (n - 1) = 19 (n - 1) / 20.
Interpolated20(r) ==
    LET n == Cardinality(RowsOf(r))
        k == (19 * (n - 1)) \div 20
        f == (19 * (n - 1)) % 20
        lo == Kth(r, k)
        hi == IF f = 0 THEN lo ELSE Kth(r, k + 1)
    IN  20 * lo + f * (hi - lo)

\* C8: the reported p95_latency of a region is the linear interpolation at
\* zero-based rank 0.95 * (n - 1) over its ascending latencies, rounded to
\* three decimals: a multiple of 0.001 at most 0.0005 from the interpolated
\* value; latencies {100, 300} give 290.0 and {50} gives 50.0.
C8_P95 ==
    Reported =>
        \A r \in DOMAIN response.metrics :
            LET p95 == response.metrics[r].p95_latency
                d == 20 * p95 - Interpolated20(r)
            IN  /\ p95 % 10 = 0
                /\ 0 - 100 <= d /\ d <= 100
                /\ (Cardinality(RowsOf(r)) = 2
                      /\ LatenciesOf(r) = {Ms(100, 0), Ms(300, 0)})
                      => p95 = Ms(290, 0)
                /\ (Cardinality(RowsOf(r)) = 1
                      /\ LatenciesOf(r) = {Ms(50, 0)})
                      => p95 = Ms(50, 0)

C8_Witness ==
    /\ Reported
    /\ \E r \in DOMAIN response.metrics :
          /\ Cardinality(RowsOf(r)) = 2
          /\ \E i, j \in RowsOf(r) :
                /\ i < j
                /\ TELEMETRY_DF[i].latency.v = Ms(300, 0)
                /\ TELEMETRY_DF[j].latency.v = Ms(100, 0)
          /\ response.metrics[r].p95_latency = Ms(290, 0)

\* C9: in every state after startup, whatever requests were handled, the
\* table is the one the startup load produced, and the answer to a valid
\* POST /api request is the one that table gives for its body.
C9_TableUnchanged ==
    pc # "startup" =>
        /\ TELEMETRY_DF = LoadTable(source)
        /\ AnsweredValid =>
              response = get_metrics(LoadTable(source),
                                     [regions |-> request.regions,
                                      threshold_ms |-> request.threshold_ms])

C9_Witness ==
    /\ Reported
    /\ DOMAIN response.metrics # {}
    /\ Len(request.regions) > 1
    /\ Cardinality(RowsOf(request.regions[1])) < Len(TELEMETRY_DF)

\* The source rows (indexes) whose latency and uptime both coerce to a number.
Kept ==
    { i \in DOMAIN source.rows :
        /\ ~ToNumeric(source.rows[i].latency).nan
        /\ ~ToNumeric(source.rows[i].uptime).nan }

\* C10: once the load has completed, every table row has a numeric latency
\* and a numeric uptime, and the table holds, in order, exactly the source
\* rows whose two fields both coerce to a number.
C10_NumericRows ==
    pc # "startup" =>
        /\ \A i \in DOMAIN TELEMETRY_DF :
              ~TELEMETRY_DF[i].latency.nan /\ ~TELEMETRY_DF[i].uptime.nan
        /\ Len(TELEMETRY_DF) = Cardinality(Kept)
        /\ \A i \in Kept :
              LET at == Cardinality({ j \in Kept : j <= i })
              IN  /\ TELEMETRY_DF[at].region = source.rows[i].region
                  /\ TELEMETRY_DF[at].latency = ToNumeric(source.rows[i].latency)
                  /\ TELEMETRY_DF[at].uptime = ToNumeric(source.rows[i].uptime)

C10_Witness ==
    /\ pc = "serving"
    /\ TELEMETRY_DF # <<>>
    /\ \E i, j \in DOMAIN source.rows :
          /\ ToNumeric(source.rows[i].latency).nan
          /\ ToNumeric(source.rows[j].uptime).nan
          /\ ~ToNumeric(source.rows[j].latency).nan

====
